---- MODULE Spec2Model ----
(***************************************************************************)
(* mail-service: template reconciliation at construction (mail.New,        *)
(* orchestrator.initTemplate) and the two-step send (orchestrator.SendMail) *)
(* of package mail, driven by main and by the gRPC server's SendMail.       *)
(*                                                                         *)
(* The orchestrator modelled is the one whose Config carries the two        *)
(* base64 template bodies (New decodes them, reconciles the forward         *)
(* template and then the thank-you template, SendMail issues both sends).   *)
(*                                                                         *)
(* Strings that are searched (error messages) are sequences of tokens, so   *)
(* that "contains" is a contiguous-subsequence test.  A serialized          *)
(* template-data payload (json.Marshal of a map[string]string) is the       *)
(* mapping it denotes.  The provider (sesClient) is an interface: each call *)
(* may return any outcome the interface allows.                             *)
(***************************************************************************)
EXTENDS Integers, Sequences, FiniteSets, TLC

VARIABLES
    cfg,      \* the mail.Config handed to New
    mpc,      \* position of the process: inside New, serving, exited or crashed
    tix,      \* which template New is reconciling: 1 forward, 2 thank-you
    o,        \* the orchestrator New is building / has returned
    newErr,   \* the error New returned (NoErr when none)
    tcalls,   \* template calls New has made to the provider, with their outcomes
    run,      \* how many times New has been called with this Config
    store1,   \* the provider's templates when the previous call of New returned
    peer,     \* New of a second instance started with the same Config: its position
    store,    \* what a provider that stores what it is given holds, by name
    rpc,      \* position of each SendMail call
    req,      \* the SendMailRequest of each call
    sends,    \* SendEmail calls issued by each SendMail call, in order
    inflight, \* number of SendEmail calls of each SendMail call not yet returned
    returned, \* outcomes the provider returned to each SendMail call's sends, in order
    result,   \* what each SendMail call returned
    logged    \* logger events recorded by each SendMail call

vars == <<cfg, run, store1, peer, mpc, tix, o, newErr, tcalls, store, rpc, req, sends, inflight,
          returned, result, logged>>

-----------------------------------------------------------------------------
(* Bounds *)

\* number of SendMail calls dispatched in one run (sequential or concurrent)
MaxCalls == 2

Calls == 1..MaxCalls

-----------------------------------------------------------------------------
(* Values *)

Nil == "nil"
NoErr == <<>>

\* contiguous-subsequence test: strings.Contains on token sequences
Contains(s, sub) ==
    \E i \in 0..(Len(s) - Len(sub)) :
        \A j \in 1..Len(sub) : s[i + j] = sub[j]

\* messages of the errors a provider call may return
ProviderErrors == { <<"boom">>, <<"boom2">> }

\* SendMailRequest values handed to SendMail; subject is optional (Nil = absent)
Requests ==
    { [name |-> "John Doe", email |-> "john@example.com", subject |-> Nil, message |-> "hi"],
      [name |-> "", email |-> "", subject |-> "", message |-> ""],
      [name |-> "Ann", email |-> "ann@example.com", subject |-> "Hey There", message |-> "Hello"] }

\* contexts: the one main passes to New, and the one of each request
StartupCtx == "startup"
RequestCtx(r) == <<"request", r>>

-----------------------------------------------------------------------------
(* encoding/base64 StdEncoding.DecodeString, on sequences of characters *)

B64Alphabet ==
    << "A","B","C","D","E","F","G","H","I","J","K","L","M","N","O","P",
       "Q","R","S","T","U","V","W","X","Y","Z","a","b","c","d","e","f",
       "g","h","i","j","k","l","m","n","o","p","q","r","s","t","u","v",
       "w","x","y","z","0","1","2","3","4","5","6","7","8","9","+","/" >>

IsB64Char(c) == \E i \in 1..64 : B64Alphabet[i] = c

B64Value(c) == (CHOOSE i \in 1..64 : B64Alphabet[i] = c) - 1

\* one quantum of four characters is well formed; last tells whether it is the final one
QuantumOK(q, last) ==
    /\ IsB64Char(q[1])
    /\ IsB64Char(q[2])
    /\ \/ IsB64Char(q[3]) /\ IsB64Char(q[4])
       \/ IsB64Char(q[3]) /\ q[4] = "=" /\ last
       \/ q[3] = "=" /\ q[4] = "=" /\ last

\* the bytes one well-formed quantum decodes to
QuantumBytes(q) ==
    LET v1 == B64Value(q[1])
        v2 == B64Value(q[2])
        v3 == IF q[3] = "=" THEN 0 ELSE B64Value(q[3])
        v4 == IF q[4] = "=" THEN 0 ELSE B64Value(q[4])
        n  == v1 * 262144 + v2 * 4096 + v3 * 64 + v4
        b1 == n \div 65536
        b2 == (n \div 256) % 256
        b3 == n % 256
    IN  IF q[3] = "=" THEN <<b1>>
        ELSE IF q[4] = "=" THEN <<b1, b2>>
        ELSE <<b1, b2, b3>>

RECURSIVE DecodeQuanta(_)
DecodeQuanta(s) ==
    IF Len(s) = 0 THEN [ok |-> TRUE, bytes |-> <<>>]
    ELSE IF Len(s) < 4 THEN [ok |-> FALSE, bytes |-> <<>>]
    ELSE LET q == SubSeq(s, 1, 4)
             rest == SubSeq(s, 5, Len(s))
         IN  IF ~QuantumOK(q, Len(rest) = 0) THEN [ok |-> FALSE, bytes |-> <<>>]
             ELSE LET d == DecodeQuanta(rest)
                  IN  IF d.ok THEN [ok |-> TRUE, bytes |-> QuantumBytes(q) \o d.bytes]
                      ELSE d

\* mutant: an empty input is reported as corrupt
DecodeString_RejectsEmpty(s) ==
    LET d == DecodeQuanta(s)
    IN  IF d.ok /\ s # <<>> THEN [err |-> NoErr, v |-> d.bytes]
        ELSE [err |-> <<"illegal", "base64", "data", "at", "input", "byte">>, v |-> <<>>]

\* base64.StdEncoding.DecodeString: the decoded bytes, or a CorruptInputError
DecodeString(s) ==
    LET d == DecodeQuanta(s)
    IN  IF d.ok THEN [err |-> NoErr, v |-> d.bytes]
        ELSE [err |-> <<"illegal", "base64", "data", "at", "input", "byte">>, v |-> <<>>]

\* configured encoded bodies: empty, "hi", "A", unpadded, illegal character
EncodedBodies ==
    { <<>>,
      <<"a","G","k","=">>,
      <<"Q","Q","=","=">>,
      <<"Q","Q">>,
      <<"P","G","!","+">> }

\* what DecodeString returns for each configured body
DecodedBodies == [s \in EncodedBodies |-> DecodeString(s)]

-----------------------------------------------------------------------------
(* Template definitions *)

\* a nil *types.EmailTemplateContent
NilContent == [Subject |-> Nil, Html |-> <<>>]

\* emailTemplate{}: the zero value
ZeroTemplate == [Name |-> "", Content |-> NilContent]

constructForwardTemplate(encodedTemplate) ==
    LET d == DecodeString(encodedTemplate)
    IN  IF d.err # NoErr
        THEN [t |-> ZeroTemplate,
              err |-> <<"failed", "to", "decode", "forward", "template", ":">> \o d.err]
        ELSE [t |-> [Name |-> "ForwardTemplate",
                     Content |-> [Subject |-> "Portfolio Contact Form Submission",
                                  Html |-> d.v]],
              err |-> NoErr]

\* mutant: the thank-you template is given the forward template's name
constructThankYouTemplate_SameName(encodedTemplate) ==
    LET d == DecodeString(encodedTemplate)
    IN  IF d.err # NoErr
        THEN [t |-> ZeroTemplate,
              err |-> <<"failed", "to", "decode", "thank", "you", "template", ":">> \o d.err]
        ELSE [t |-> [Name |-> "ForwardTemplate",
                     Content |-> [Subject |-> "Thank you for your interest",
                                  Html |-> d.v]],
              err |-> NoErr]

\* mutant: the decoding error of the thank-you body is dropped
constructThankYouTemplate_IgnoresDecodeError(encodedTemplate) ==
    [t |-> [Name |-> "ThankYouTemplate",
            Content |-> [Subject |-> "Thank you for your interest",
                         Html |-> DecodeString(encodedTemplate).v]],
     err |-> NoErr]

constructThankYouTemplate(encodedTemplate) ==
    LET d == DecodeString(encodedTemplate)
    IN  IF d.err # NoErr
        THEN [t |-> ZeroTemplate,
              err |-> <<"failed", "to", "decode", "thank", "you", "template", ":">> \o d.err]
        ELSE [t |-> [Name |-> "ThankYouTemplate",
                     Content |-> [Subject |-> "Thank you for your interest",
                                  Html |-> d.v]],
              err |-> NoErr]

TemplateNames == {"ForwardTemplate", "ThankYouTemplate"}

\* content a provider may hold before construction that differs from any local one
StaleContent == [Subject |-> "old", Html |-> <<0>>]

\* no template stored under a name
Absent == [Subject |-> Nil, Html |-> <<>>]

-----------------------------------------------------------------------------
(* Provider outcomes (sesClient) *)

OkOutcome == [kind |-> "ok", msg |-> NoErr]

\* *types.NotFoundException; its Error() text
NotFoundOutcome ==
    [kind |-> "NotFoundException",
     msg |-> <<"NotFoundException", ":", "Template", "not", "found">>]

ErrorOutcomes == { [kind |-> "error", msg |-> e] : e \in ProviderErrors }

\* GetEmailTemplate may succeed, fail with NotFoundException, or fail otherwise
GetOutcomes == {OkOutcome, NotFoundOutcome} \cup ErrorOutcomes

\* CreateEmailTemplate, UpdateEmailTemplate and SendEmail succeed or fail
CallOutcomes == {OkOutcome} \cup ErrorOutcomes

-----------------------------------------------------------------------------
(* Construction: mail.New and orchestrator.initTemplate *)

\* a nil Orchestrator, as returned beside an error
NilOrchestrator ==
    [isNil |-> TRUE, forwardEmail |-> "", fromEmail |-> "",
     forwardTemplate |-> ZeroTemplate, thankYouTemplate |-> ZeroTemplate,
     logger |-> Nil]

Configs ==
    [ForwardEmail : {"operator@example.com"},
     FromEmail : {"noreply@example.com"},
     ForwardTemplateEncoded : EncodedBodies,
     ThankYouTemplateEncoded : EncodedBodies,
     Logger : {Nil, "zap"}]

\* mutant: the thank-you template is reconciled first
CurrentTemplate_ThankYouFirst == IF tix = 1 THEN o.thankYouTemplate ELSE o.forwardTemplate

\* the template New is reconciling
CurrentTemplate == IF tix = 1 THEN o.forwardTemplate ELSE o.thankYouTemplate

\* New's wrapping of an initTemplate error
NewWrap(i, err) ==
    IF i = 1
    THEN <<"failed", "to", "initialize", "forward", "template", ":">> \o err
    ELSE <<"failed", "to", "initialize", "thank", "you", "template", ":">> \o err

\* mutant: the template calls are made with a fresh background context
TemplateCall_BackgroundCtx(op, t, withContent, out) ==
    [op |-> op, name |-> t.Name,
     content |-> IF withContent THEN t.Content ELSE NilContent,
     ctx |-> "background",
     out |-> out]

\* one provider call of initTemplate: its input, its context and what it returned
TemplateCall(op, t, withContent, out) ==
    [op |-> op, name |-> t.Name,
     content |-> IF withContent THEN t.Content ELSE NilContent,
     ctx |-> StartupCtx,
     out |-> out]

\* New returns (nil, err)
NewFails(err) ==
    /\ newErr' = err
    /\ o' = NilOrchestrator
    /\ mpc' = "returned"
    /\ tix' = tix

\* mutant: New returns o after the first template
InitTemplateDone_SkipsSecond ==
    /\ newErr' = newErr
    /\ o' = o
    /\ tix' = tix
    /\ mpc' = "returned"

\* initTemplate returned nil: New goes on to the next template or returns o
InitTemplateDone ==
    /\ newErr' = newErr
    /\ o' = o
    /\ IF tix = 1
       THEN tix' = 2 /\ mpc' = "get"
       ELSE tix' = tix /\ mpc' = "returned"

\* New, up to the first initTemplate: fill o, decode both bodies
NewConstruct ==
    /\ mpc = "New"
    /\ LET f == constructForwardTemplate(cfg.ForwardTemplateEncoded)
           y == constructThankYouTemplate(cfg.ThankYouTemplateEncoded)
       IN  IF f.err # NoErr THEN NewFails(f.err)
           ELSE IF y.err # NoErr THEN NewFails(y.err)
           ELSE /\ o' = [isNil |-> FALSE,
                         forwardEmail |-> cfg.ForwardEmail,
                         fromEmail |-> cfg.FromEmail,
                         forwardTemplate |-> f.t,
                         thankYouTemplate |-> y.t,
                         logger |-> cfg.Logger]
                /\ mpc' = "get"
                /\ UNCHANGED <<newErr, tix>>
    /\ UNCHANGED <<cfg, run, store1, peer, tcalls, store, rpc, req, sends, inflight, returned, result, logged>>

\* mutant: a template that exists is created instead of updated
AfterGet_CreateWhenFound(out) ==
    IF out.kind = "ok" THEN "create"
    ELSE IF out.kind = "NotFoundException" THEN "create"
    ELSE "fail"

\* mutant: NotFoundException is not told apart from the other fetch errors
AfterGet_NotFoundIsFailure(out) ==
    IF out.kind = "ok" THEN "update" ELSE "fail"

\* mutant: every fetch error is taken for "not found"
AfterGet_AnyErrorCreates(out) ==
    IF out.kind = "ok" THEN "update" ELSE "create"

\* initTemplate's branch on the result of GetEmailTemplate
AfterGet(out) ==
    IF out.kind = "ok" THEN "update"
    ELSE IF out.kind = "NotFoundException" THEN "create"
    ELSE "fail"

\* initTemplate: the GetEmailTemplate call and the branch on its result
GetEmailTemplate(out) ==
    /\ mpc = "get"
    /\ tcalls' = Append(tcalls, TemplateCall("GetEmailTemplate", CurrentTemplate, FALSE, out))
    /\ IF AfterGet(out) = "fail"
       THEN NewFails(NewWrap(tix,
                <<"failed", "to", "initialize", "email", "template", "with", "aws", "ses", ":">>
                \o out.msg))
       ELSE /\ mpc' = AfterGet(out)
            /\ UNCHANGED <<o, newErr, tix>>
    /\ UNCHANGED <<cfg, run, store1, peer, store, rpc, req, sends, inflight, returned, result, logged>>

\* mutant: the create is sent without the template's content
CreateEmailTemplate_NoContent(out) ==
    /\ mpc = "create"
    /\ tcalls' = Append(tcalls, TemplateCall("CreateEmailTemplate", CurrentTemplate, FALSE, out))
    /\ IF out.kind # "ok"
       THEN /\ NewFails(NewWrap(tix,
                  <<"failed", "to", "create", "email", "template", "with", "aws", "ses", ":">>
                  \o out.msg))
            /\ store' = store
       ELSE /\ InitTemplateDone
            /\ store' = [store EXCEPT ![tcalls'[Len(tcalls')].name] = tcalls'[Len(tcalls')].content]
    /\ UNCHANGED <<cfg, run, store1, peer, rpc, req, sends, inflight, returned, result, logged>>

\* mutant: a failed create is reported with the text of a failed update
CreateEmailTemplate_UpdateTag(out) ==
    /\ mpc = "create"
    /\ tcalls' = Append(tcalls, TemplateCall("CreateEmailTemplate", CurrentTemplate, TRUE, out))
    /\ IF out.kind # "ok"
       THEN /\ NewFails(NewWrap(tix,
                  <<"failed", "to", "update", "email", "template", "with", "aws", "ses", ":">>
                  \o out.msg))
            /\ store' = store
       ELSE /\ InitTemplateDone
            /\ store' = [store EXCEPT ![tcalls'[Len(tcalls')].name] = tcalls'[Len(tcalls')].content]
    /\ UNCHANGED <<cfg, run, store1, peer, rpc, req, sends, inflight, returned, result, logged>>

\* initTemplate: the CreateEmailTemplate call after a NotFoundException
CreateEmailTemplate(out) ==
    /\ mpc = "create"
    /\ tcalls' = Append(tcalls, TemplateCall("CreateEmailTemplate", CurrentTemplate, TRUE, out))
    /\ IF out.kind # "ok"
       THEN /\ NewFails(NewWrap(tix,
                  <<"failed", "to", "create", "email", "template", "with", "aws", "ses", ":">>
                  \o out.msg))
            /\ store' = store
       ELSE /\ InitTemplateDone
            /\ store' = [store EXCEPT ![tcalls'[Len(tcalls')].name] = tcalls'[Len(tcalls')].content]
    /\ UNCHANGED <<cfg, run, store1, peer, rpc, req, sends, inflight, returned, result, logged>>

\* mutant: a failed update is tried a second time
UpdateEmailTemplate_RetriesOnce(out) ==
    /\ mpc = "update"
    /\ tcalls' = Append(tcalls, TemplateCall("UpdateEmailTemplate", CurrentTemplate, TRUE, out))
    /\ IF out.kind # "ok"
       THEN /\ IF tcalls[Len(tcalls)].op = "GetEmailTemplate"
               THEN UNCHANGED <<mpc, o, newErr, tix>>
               ELSE NewFails(NewWrap(tix,
                        <<"failed", "to", "update", "email", "template", "with", "aws", "ses", ":">>
                        \o out.msg))
            /\ store' = store
       ELSE /\ InitTemplateDone
            /\ store' = [store EXCEPT ![tcalls'[Len(tcalls')].name] = tcalls'[Len(tcalls')].content]
    /\ UNCHANGED <<cfg, run, store1, peer, rpc, req, sends, inflight, returned, result, logged>>

\* mutant: a failed update of the second template deletes the first again
UpdateEmailTemplate_RollsBack(out) ==
    /\ mpc = "update"
    /\ IF out.kind # "ok"
       THEN /\ NewFails(NewWrap(tix,
                  <<"failed", "to", "update", "email", "template", "with", "aws", "ses", ":">>
                  \o out.msg))
            /\ IF tix = 2
               THEN /\ tcalls' = tcalls \o
                           << TemplateCall("UpdateEmailTemplate", CurrentTemplate, TRUE, out),
                              TemplateCall("DeleteEmailTemplate", o.forwardTemplate, FALSE,
                                           OkOutcome) >>
                    /\ store' = [store EXCEPT ![o.forwardTemplate.Name] = Absent]
               ELSE /\ tcalls' = Append(tcalls, TemplateCall("UpdateEmailTemplate",
                                                             CurrentTemplate, TRUE, out))
                    /\ store' = store
       ELSE /\ tcalls' = Append(tcalls, TemplateCall("UpdateEmailTemplate", CurrentTemplate,
                                                     TRUE, out))
            /\ InitTemplateDone
            /\ store' = [store EXCEPT ![tcalls'[Len(tcalls')].name] = tcalls'[Len(tcalls')].content]
    /\ UNCHANGED <<cfg, run, store1, peer, rpc, req, sends, inflight, returned, result, logged>>

\* mutant: the update is sent without the template's content
UpdateEmailTemplate_NoContent(out) ==
    /\ mpc = "update"
    /\ tcalls' = Append(tcalls, TemplateCall("UpdateEmailTemplate", CurrentTemplate, FALSE, out))
    /\ IF out.kind # "ok"
       THEN /\ NewFails(NewWrap(tix,
                  <<"failed", "to", "update", "email", "template", "with", "aws", "ses", ":">>
                  \o out.msg))
            /\ store' = store
       ELSE /\ InitTemplateDone
            /\ store' = [store EXCEPT ![tcalls'[Len(tcalls')].name] = tcalls'[Len(tcalls')].content]
    /\ UNCHANGED <<cfg, run, store1, peer, rpc, req, sends, inflight, returned, result, logged>>

\* initTemplate: the UpdateEmailTemplate call after a successful fetch
UpdateEmailTemplate(out) ==
    /\ mpc = "update"
    /\ tcalls' = Append(tcalls, TemplateCall("UpdateEmailTemplate", CurrentTemplate, TRUE, out))
    /\ IF out.kind # "ok"
       THEN /\ NewFails(NewWrap(tix,
                  <<"failed", "to", "update", "email", "template", "with", "aws", "ses", ":">>
                  \o out.msg))
            /\ store' = store
       ELSE /\ InitTemplateDone
            /\ store' = [store EXCEPT ![tcalls'[Len(tcalls')].name] = tcalls'[Len(tcalls')].content]
    /\ UNCHANGED <<cfg, run, store1, peer, rpc, req, sends, inflight, returned, result, logged>>

\* mutant: main logs the error New returned and goes on to serve
MainFatal_LogsAndServes ==
    /\ mpc = "returned"
    /\ newErr # NoErr
    /\ mpc' = "serving"
    /\ UNCHANGED <<cfg, run, store1, peer, tix, o, newErr, tcalls, store, rpc, req, sends, inflight,
                   returned, result, logged>>

\* main: New failed, zlog.Fatal ends the process
MainFatal ==
    /\ mpc = "returned"
    /\ newErr # NoErr
    /\ mpc' = "exited"
    /\ UNCHANGED <<cfg, run, store1, peer, tix, o, newErr, tcalls, store, rpc, req, sends, inflight,
                   returned, result, logged>>

\* mutant: main does not look at the error New returned
MainServe_IgnoresError ==
    /\ mpc = "returned"
    /\ mpc' = "serving"
    /\ UNCHANGED <<cfg, run, store1, peer, tix, o, newErr, tcalls, store, rpc, req, sends, inflight,
                   returned, result, logged>>

\* main: New succeeded, the server is registered and serves
MainServe ==
    /\ mpc = "returned"
    /\ newErr = NoErr
    /\ mpc' = "serving"
    /\ UNCHANGED <<cfg, run, store1, peer, tix, o, newErr, tcalls, store, rpc, req, sends, inflight,
                   returned, result, logged>>

-----------------------------------------------------------------------------
(* Sending: orchestrator.SendMail, reached through server.SendMail *)

\* what a SendMail call has returned so far
NoResult == [status |-> "none", code |-> "", msg |-> NoErr]

\* (&SendMailResponse{}, nil)
EmptySuccess == [status |-> "ok", code |-> "OK", msg |-> NoErr]

\* (nil, status.Errorf(codes.Internal, ...))
InternalError(msg) == [status |-> "error", code |-> "Internal", msg |-> msg]

\* the goroutine of the call panicked: nothing is returned
Panicked == [status |-> "panic", code |-> "", msg |-> NoErr]

\* err.Error() of a status error
ErrorText(e) ==
    <<"rpc", "error", ":", "code", "=", e.code, "desc", "=">> \o e.msg

NoRequest == [name |-> "", email |-> "", subject |-> Nil, message |-> ""]

\* mutant: an empty subject is replaced by the default as well
constructForwardTemplateData_EmptySubjectDefault(message, name, email, subject) ==
    [message |-> message,
     name |-> name,
     email |-> email,
     subject |-> IF subject \in {Nil, ""} THEN "Portfolio Contact Form Inquiry" ELSE subject]

\* the mapping json.Marshal serializes for the forward send
constructForwardTemplateData(message, name, email, subject) ==
    [message |-> message,
     name |-> name,
     email |-> email,
     subject |-> IF subject = Nil THEN "Portfolio Contact Form Inquiry" ELSE subject]

\* the mapping json.Marshal serializes for the thank-you send
constructThankYouTemplateData(name) == [name |-> name]

\* the argument SendMail passes to constructThankYouTemplateData
ThankYouDataArgument(m) == m.message

\* mutant: after a failed call the forward send is built from that call's request
ForwardSendInput_StaleAfterFailure(r, m) ==
    LET n == IF r > 1 THEN (IF result[r - 1].status = "error" THEN req[r - 1] ELSE m) ELSE m
    IN  [TemplateName |-> o.forwardTemplate.Name,
         TemplateData |-> constructForwardTemplateData(n.message, n.name, n.email, n.subject),
         ToAddresses |-> <<o.forwardEmail>>,
         FromEmailAddress |-> o.fromEmail,
         ctx |-> RequestCtx(r)]

\* the SendEmailInput of the forward send
ForwardSendInput(r, m) ==
    [TemplateName |-> o.forwardTemplate.Name,
     TemplateData |-> constructForwardTemplateData(m.message, m.name, m.email, m.subject),
     ToAddresses |-> <<o.forwardEmail>>,
     FromEmailAddress |-> o.fromEmail,
     ctx |-> RequestCtx(r)]

\* mutant: the submitter's address is read from a field shared by all calls,
\* which holds the request dispatched last
ThankYouSendInput_SharedRequest(r, m) ==
    LET last == CHOOSE q \in Calls :
                    /\ rpc[q] # "idle"
                    /\ \A p \in Calls : rpc[p] # "idle" => p <= q
    IN  [TemplateName |-> o.thankYouTemplate.Name,
         TemplateData |-> constructThankYouTemplateData(ThankYouDataArgument(m)),
         ToAddresses |-> <<req[last].email>>,
         FromEmailAddress |-> o.fromEmail,
         ctx |-> RequestCtx(r)]

\* mutant: the thank-you send names the forward template
ThankYouSendInput_UsesForwardTemplate(r, m) ==
    [TemplateName |-> o.forwardTemplate.Name,
     TemplateData |-> constructThankYouTemplateData(ThankYouDataArgument(m)),
     ToAddresses |-> <<m.email>>,
     FromEmailAddress |-> o.fromEmail,
     ctx |-> RequestCtx(r)]

\* the SendEmailInput of the thank-you send
ThankYouSendInput(r, m) ==
    [TemplateName |-> o.thankYouTemplate.Name,
     TemplateData |-> constructThankYouTemplateData(ThankYouDataArgument(m)),
     ToAddresses |-> <<m.email>>,
     FromEmailAddress |-> o.fromEmail,
     ctx |-> RequestCtx(r)]

\* o.logger.Info("Forward email sent", zap.String("to", o.forwardEmail))
ForwardSentEvent == [msg |-> "Forward email sent", to |-> o.forwardEmail]

\* server.SendMail hands the request it received to the orchestrator's SendMail
ServerRequest(m) == m

\* mutant: the server answers every request with the empty response
ServerReturn_MasksError(res) ==
    IF res.status = "error" THEN EmptySuccess ELSE res

\* server.SendMail returns what the orchestrator's SendMail returned
ServerReturn(res) == res

\* SendMail returns (nil, err) or (&SendMailResponse{}, nil), and the server
\* returns that to the caller of the RPC
Return(r, res) ==
    /\ result' = [result EXCEPT ![r] = ServerReturn(res)]
    /\ rpc' = [rpc EXCEPT ![r] = "done"]

\* mutant: SendMail issues both sends without waiting for the first
SendMailForward_BothAtOnce(r, m) ==
    /\ mpc = "serving"
    /\ rpc[r] = "idle"
    /\ IF r = 1 THEN TRUE ELSE rpc[r - 1] # "idle"
    /\ req' = [req EXCEPT ![r] = m]
    /\ sends' = [sends EXCEPT ![r] = <<ForwardSendInput(r, m), ThankYouSendInput(r, m)>>]
    /\ inflight' = [inflight EXCEPT ![r] = @ + 2]
    /\ rpc' = [rpc EXCEPT ![r] = "forward"]
    /\ UNCHANGED <<cfg, run, store1, peer, mpc, tix, o, newErr, tcalls, store, returned, result, logged>>

\* mutant: SendMail pushes the forward template to the provider again
SendMailForward_Resyncs(r, m) ==
    /\ mpc = "serving"
    /\ rpc[r] = "idle"
    /\ IF r = 1 THEN TRUE ELSE rpc[r - 1] # "idle"
    /\ req' = [req EXCEPT ![r] = m]
    /\ tcalls' = Append(tcalls, TemplateCall("UpdateEmailTemplate", o.forwardTemplate, TRUE,
                                              OkOutcome))
    /\ sends' = [sends EXCEPT ![r] = Append(@, ForwardSendInput(r, ServerRequest(m)))]
    /\ inflight' = [inflight EXCEPT ![r] = @ + 1]
    /\ rpc' = [rpc EXCEPT ![r] = "forward"]
    /\ UNCHANGED <<cfg, run, store1, peer, mpc, tix, o, newErr, store, returned, result, logged>>

\* server.SendMail delegates to SendMail, which builds the forward data and
\* issues the forward send; calls are numbered in the order they are dispatched
SendMailForward(r, m) ==
    /\ mpc = "serving"
    /\ rpc[r] = "idle"
    /\ IF r = 1 THEN TRUE ELSE rpc[r - 1] # "idle"
    /\ req' = [req EXCEPT ![r] = m]
    /\ sends' = [sends EXCEPT ![r] = Append(@, ForwardSendInput(r, ServerRequest(m)))]
    /\ inflight' = [inflight EXCEPT ![r] = @ + 1]
    /\ rpc' = [rpc EXCEPT ![r] = "forward"]
    /\ UNCHANGED <<cfg, run, store1, peer, mpc, tix, o, newErr, tcalls, store, returned, result, logged>>

\* mutant: the forward error is tagged as a thank-you failure
ForwardSendError_WrongTag(out) ==
    InternalError(<<"failed", "to", "send", "email", "thank", "you", "email", ":">> \o out.msg)

\* mutant: the provider's error is not wrapped into the message
ForwardSendError_DropsCause(out) ==
    InternalError(<<"failed", "to", "send", "forward", "email">>)

\* status.Errorf(codes.Internal, "failed to send forward email: %v", err)
ForwardSendError(out) ==
    InternalError(<<"failed", "to", "send", "forward", "email", ":">> \o out.msg)

\* mutant: the provider's error is not wrapped into the message
ThankYouSendError_DropsCause(out) ==
    InternalError(<<"failed", "to", "send", "email", "thank", "you", "email">>)

\* mutant: the thank-you failure is classified Unavailable
ThankYouSendError_Unavailable(out) ==
    [status |-> "error", code |-> "Unavailable",
     msg |-> <<"failed", "to", "send", "email", "thank", "you", "email", ":">> \o out.msg]

\* status.Errorf(codes.Internal, "failed to send email thank you email: %v", err)
ThankYouSendError(out) ==
    InternalError(<<"failed", "to", "send", "email", "thank", "you", "email", ":">> \o out.msg)

\* mutant: a failed forward send does not end the call, the thank-you send follows
ForwardSendReturns_NoShortCircuit(r, out) ==
    /\ mpc = "serving"
    /\ rpc[r] = "forward"
    /\ returned' = [returned EXCEPT ![r] = Append(@, out)]
    /\ logged' = [logged EXCEPT ![r] = Append(@, ForwardSentEvent)]
    /\ sends' = [sends EXCEPT ![r] = Append(@, ThankYouSendInput(r, req[r]))]
    /\ inflight' = [inflight EXCEPT ![r] = (@ - 1) + 1]
    /\ rpc' = [rpc EXCEPT ![r] = "thankyou"]
    /\ UNCHANGED <<cfg, run, store1, peer, mpc, tix, o, newErr, tcalls, store, req, result>>

\* the forward send returns: on an error SendMail returns; otherwise it records
\* the event, builds the thank-you data and issues the thank-you send
ForwardSendReturns(r, out) ==
    /\ mpc = "serving"
    /\ rpc[r] = "forward"
    /\ returned' = [returned EXCEPT ![r] = Append(@, out)]
    /\ IF out.kind # "ok"
       THEN /\ Return(r, ForwardSendError(out))
            /\ inflight' = [inflight EXCEPT ![r] = @ - 1]
            /\ UNCHANGED <<mpc, sends, logged>>
       ELSE IF o.logger = Nil
       THEN \* nil *zap.Logger: Info dereferences it, the process dies
            /\ Return(r, Panicked)
            /\ inflight' = [inflight EXCEPT ![r] = @ - 1]
            /\ mpc' = "crashed"
            /\ UNCHANGED <<sends, logged>>
       ELSE /\ logged' = [logged EXCEPT ![r] = Append(@, ForwardSentEvent)]
            /\ sends' = [sends EXCEPT ![r] = Append(@, ThankYouSendInput(r, req[r]))]
            /\ inflight' = [inflight EXCEPT ![r] = (@ - 1) + 1]
            /\ rpc' = [rpc EXCEPT ![r] = "thankyou"]
            /\ UNCHANGED <<mpc, result>>
    /\ UNCHANGED <<cfg, run, store1, peer, tix, o, newErr, tcalls, store, req>>

\* mutant: SendMail keeps the submitter's address in the orchestrator
ThankYouSendReturns_RemembersSubmitter(r, out) ==
    /\ mpc = "serving"
    /\ rpc[r] = "thankyou"
    /\ returned' = [returned EXCEPT ![r] = Append(@, out)]
    /\ inflight' = [inflight EXCEPT ![r] = @ - 1]
    /\ o' = [o EXCEPT !.forwardEmail = req[r].email]
    /\ IF out.kind # "ok"
       THEN Return(r, ThankYouSendError(out))
       ELSE Return(r, EmptySuccess)
    /\ UNCHANGED <<cfg, run, store1, peer, mpc, tix, newErr, tcalls, store, req, sends, logged>>

\* the thank-you send returns: SendMail returns the error or the empty response
ThankYouSendReturns(r, out) ==
    /\ mpc = "serving"
    /\ rpc[r] = "thankyou"
    /\ returned' = [returned EXCEPT ![r] = Append(@, out)]
    /\ inflight' = [inflight EXCEPT ![r] = @ - 1]
    /\ IF out.kind # "ok"
       THEN Return(r, ThankYouSendError(out))
       ELSE Return(r, EmptySuccess)
    /\ UNCHANGED <<cfg, run, store1, peer, mpc, tix, o, newErr, tcalls, store, req, sends, logged>>

-----------------------------------------------------------------------------
(* Specification *)

Init ==
    /\ cfg \in Configs
    /\ mpc = "New"
    /\ tix = 1
    /\ o = NilOrchestrator
    /\ newErr = NoErr
    /\ tcalls = <<>>
    /\ store \in [TemplateNames -> {Absent, StaleContent}]
    /\ run = 1
    /\ peer = [mpc |-> "New", tix |-> 1, newErr |-> NoErr]
    /\ store1 = [name \in TemplateNames |-> Absent]
    /\ rpc = [r \in Calls |-> "idle"]
    /\ req = [r \in Calls |-> NoRequest]
    /\ sends = [r \in Calls |-> <<>>]
    /\ inflight = [r \in Calls |-> 0]
    /\ returned = [r \in Calls |-> <<>>]
    /\ result = [r \in Calls |-> NoResult]
    /\ logged = [r \in Calls |-> <<>>]

Next ==
    \/ NewConstruct
    \/ \E out \in GetOutcomes : GetEmailTemplate(out)
    \/ \E out \in CallOutcomes : CreateEmailTemplate(out)
    \/ \E out \in CallOutcomes : UpdateEmailTemplate(out)
    \/ MainFatal
    \/ MainServe
    \/ \E r \in Calls, m \in Requests : SendMailForward(r, m)
    \/ \E r \in Calls, out \in CallOutcomes : ForwardSendReturns(r, out)
    \/ \E r \in Calls, out \in CallOutcomes : ThankYouSendReturns(r, out)

Spec == Init /\ [][Next]_vars

-----------------------------------------------------------------------------
(* New called again with the same Config, against a provider that stores the
   templates it is given *)

MaxRuns == 2

\* the provider finds a template exactly when it holds one under that name
StoredGetOutcome(name) ==
    IF store[name] = Absent THEN NotFoundOutcome ELSE OkOutcome

\* the provider creates a template unless it holds one under that name
StoredCreateOutcome(name) ==
    IF store[name] = Absent
    THEN OkOutcome
    ELSE [kind |-> "error", msg |-> <<"AlreadyExistsException">>]

\* the provider updates a template it holds under that name
StoredUpdateOutcome(name) ==
    IF store[name] = Absent
    THEN [kind |-> "error", msg |-> <<"NotFoundException">>]
    ELSE OkOutcome

GetStored == GetEmailTemplate(StoredGetOutcome(CurrentTemplate.Name))

CreateStored == CreateEmailTemplate(StoredCreateOutcome(CurrentTemplate.Name))

UpdateStored == UpdateEmailTemplate(StoredUpdateOutcome(CurrentTemplate.Name))

\* New has returned an orchestrator and is called again with the same Config
NewAgain ==
    /\ mpc = "returned"
    /\ newErr = NoErr
    /\ run < MaxRuns
    /\ run' = run + 1
    /\ store1' = store
    /\ mpc' = "New"
    /\ tix' = 1
    /\ o' = NilOrchestrator
    /\ tcalls' = <<>>
    /\ UNCHANGED <<cfg, peer, newErr, store, rpc, req, sends, inflight, returned, result, logged>>

NextRerun ==
    \/ NewConstruct
    \/ GetStored
    \/ CreateStored
    \/ UpdateStored
    \/ MainFatal
    \/ NewAgain

SpecRerun == Init /\ [][NextRerun]_vars

-----------------------------------------------------------------------------
(* Two instances of the service starting with the same Config against one
   provider that stores its templates; the second instance's New is followed
   in the variable peer *)

\* the template the second instance's New is reconciling
PeerTemplate ==
    IF peer.tix = 1
    THEN constructForwardTemplate(cfg.ForwardTemplateEncoded).t
    ELSE constructThankYouTemplate(cfg.ThankYouTemplateEncoded).t

\* the second instance's New returns (nil, err)
PeerFails(err) == peer' = [peer EXCEPT !.mpc = "returned", !.newErr = err]

\* the second instance's initTemplate returned nil
PeerTemplateDone ==
    peer' = IF peer.tix = 1
            THEN [peer EXCEPT !.tix = 2, !.mpc = "get"]
            ELSE [peer EXCEPT !.mpc = "returned"]

\* New of the second instance, up to its first initTemplate
PeerConstruct ==
    /\ peer.mpc = "New"
    /\ LET f == constructForwardTemplate(cfg.ForwardTemplateEncoded)
           y == constructThankYouTemplate(cfg.ThankYouTemplateEncoded)
       IN  IF f.err # NoErr THEN PeerFails(f.err)
           ELSE IF y.err # NoErr THEN PeerFails(y.err)
           ELSE peer' = [peer EXCEPT !.mpc = "get"]
    /\ UNCHANGED <<cfg, run, store1, mpc, tix, o, newErr, tcalls, store, rpc, req, sends,
                   inflight, returned, result, logged>>

\* initTemplate of the second instance: GetEmailTemplate and the branch
PeerGet ==
    /\ peer.mpc = "get"
    /\ LET out == StoredGetOutcome(PeerTemplate.Name)
       IN  IF AfterGet(out) = "fail"
           THEN PeerFails(NewWrap(peer.tix,
                    <<"failed", "to", "initialize", "email", "template", "with", "aws", "ses", ":">>
                    \o out.msg))
           ELSE peer' = [peer EXCEPT !.mpc = AfterGet(out)]
    /\ UNCHANGED <<cfg, run, store1, mpc, tix, o, newErr, tcalls, store, rpc, req, sends,
                   inflight, returned, result, logged>>

\* initTemplate of the second instance: CreateEmailTemplate
PeerCreate ==
    /\ peer.mpc = "create"
    /\ LET out == StoredCreateOutcome(PeerTemplate.Name)
       IN  IF out.kind # "ok"
           THEN /\ PeerFails(NewWrap(peer.tix,
                      <<"failed", "to", "create", "email", "template", "with", "aws", "ses", ":">>
                      \o out.msg))
                /\ store' = store
           ELSE /\ PeerTemplateDone
                /\ store' = [store EXCEPT ![PeerTemplate.Name] = PeerTemplate.Content]
    /\ UNCHANGED <<cfg, run, store1, mpc, tix, o, newErr, tcalls, rpc, req, sends,
                   inflight, returned, result, logged>>

\* initTemplate of the second instance: UpdateEmailTemplate
PeerUpdate ==
    /\ peer.mpc = "update"
    /\ LET out == StoredUpdateOutcome(PeerTemplate.Name)
       IN  IF out.kind # "ok"
           THEN /\ PeerFails(NewWrap(peer.tix,
                      <<"failed", "to", "update", "email", "template", "with", "aws", "ses", ":">>
                      \o out.msg))
                /\ store' = store
           ELSE /\ PeerTemplateDone
                /\ store' = [store EXCEPT ![PeerTemplate.Name] = PeerTemplate.Content]
    /\ UNCHANGED <<cfg, run, store1, mpc, tix, o, newErr, tcalls, rpc, req, sends,
                   inflight, returned, result, logged>>

NextTwo ==
    \/ NewConstruct
    \/ GetStored
    \/ CreateStored
    \/ UpdateStored
    \/ MainFatal
    \/ PeerConstruct
    \/ PeerGet
    \/ PeerCreate
    \/ PeerUpdate

SpecTwo == Init /\ [][NextTwo]_vars

-----------------------------------------------------------------------------
(* Properties of SendMail *)

\* the forward send of call r has returned an error
ForwardSendFailed(r) == Len(returned[r]) >= 1 /\ returned[r][1].kind # "ok"

\* the forward send of call r has returned without error
ForwardSendSucceeded(r) == Len(returned[r]) >= 1 /\ returned[r][1].kind = "ok"

\* the thank-you send of call r has returned an error
ThankYouSendFailed(r) == Len(returned[r]) = 2 /\ returned[r][2].kind # "ok"

\* the sends call r issued with the thank-you template to the submitter
ThankYouSends(r) ==
    { i \in 1..Len(sends[r]) : sends[r][i].TemplateName = "ThankYouTemplate" }

\* the sends call r issued with the forward template
ForwardSends(r) ==
    { i \in 1..Len(sends[r]) : sends[r][i].TemplateName = "ForwardTemplate" }

\* C1: whenever the forward send of a SendMail call has failed, the call has
\* returned an error, no thank-you send was issued, and the provider's send
\* operation was invoked exactly once by that call.
C1_ForwardFailureShortCircuits ==
    \A r \in Calls :
        ForwardSendFailed(r) =>
            /\ rpc[r] = "done"
            /\ result[r].status = "error"
            /\ ThankYouSends(r) = {}
            /\ Len(sends[r]) = 1
            /\ Len(returned[r]) = 1

C1_Witness ==
    \E r \in Calls : ForwardSendFailed(r) /\ rpc[r] = "done" /\ req[r].name = "John Doe"

\* C2: when the forward send succeeded and the thank-you send then failed with
\* provider error e, the call has returned an error (not a success) whose
\* message contains e's message; the forward send was issued exactly once and
\* the call made no provider call besides its two sends.
C2_ThankYouFailureReported ==
    \A r \in Calls :
        (ForwardSendSucceeded(r) /\ ThankYouSendFailed(r)) =>
            /\ rpc[r] = "done"
            /\ result[r].status = "error"
            /\ Contains(ErrorText(result[r]), returned[r][2].msg)
            /\ Cardinality(ForwardSends(r)) = 1
            /\ Len(sends[r]) = 2
            /\ sends[r][1] = ForwardSendInput(r, req[r])

C2_Witness ==
    \E r \in Calls :
        /\ ForwardSendSucceeded(r)
        /\ ThankYouSendFailed(r)
        /\ returned[r][2].msg = <<"boom2">>
        /\ rpc[r] = "done"

\* C3: whenever both sends of a call succeeded, the payload of the thank-you
\* send is exactly the mapping {name -> the submission's name field}.
C3_ThankYouPayloadIsName ==
    \A r \in Calls :
        (Len(returned[r]) = 2 /\ returned[r][1].kind = "ok" /\ returned[r][2].kind = "ok") =>
            /\ DOMAIN sends[r][2].TemplateData = {"name"}
            /\ sends[r][2].TemplateData.name = req[r].name

\* C4: once a call whose every provider send succeeded is over, it has issued
\* exactly two sends and returned an empty success with no error; the first
\* send's only destination is the configured forward address and the second
\* send's only destination is the submission's email field.
C4_TwoSendsOnSuccess ==
    \A r \in Calls :
        (rpc[r] = "done" /\ \A i \in 1..Len(returned[r]) : returned[r][i].kind = "ok") =>
            /\ Len(sends[r]) = 2
            /\ result[r] = EmptySuccess
            /\ sends[r][1].ToAddresses = <<cfg.ForwardEmail>>
            /\ sends[r][2].ToAddresses = <<req[r].email>>

\* the tag SendMail put in front of an error message
HasTag(msg, tag) == Len(msg) >= Len(tag) /\ SubSeq(msg, 1, Len(tag)) = tag

ForwardTags ==
    { <<"failed", "to", "prepare", "forward", "template", "data", ":">>,
      <<"failed", "to", "send", "forward", "email", ":">> }

ThankYouTags ==
    { <<"failed", "to", "prepare", "thank", "you", "template", "data", ":">>,
      <<"failed", "to", "send", "email", "thank", "you", "email", ":">> }

CarriesForwardTag(r) == \E t \in ForwardTags : HasTag(result[r].msg, t)

CarriesThankYouTag(r) == \E t \in ThankYouTags : HasTag(result[r].msg, t)

\* C5: an error returned by SendMail carries a forward tag or a thank-you tag,
\* never both; a forward tag implies that the forward send did not succeed and
\* no thank-you send was issued; a thank-you tag implies that the forward send
\* was issued and succeeded.
C5_TagIdentifiesStep ==
    \A r \in Calls :
        result[r].status = "error" =>
            /\ CarriesForwardTag(r) \/ CarriesThankYouTag(r)
            /\ ~(CarriesForwardTag(r) /\ CarriesThankYouTag(r))
            /\ CarriesForwardTag(r) =>
                   (~ForwardSendSucceeded(r) /\ ThankYouSends(r) = {})
            /\ CarriesThankYouTag(r) =>
                   (ForwardSends(r) = {1} /\ ForwardSendSucceeded(r))
            /\ ForwardTags \cap ThankYouTags = {}

C5_Witness ==
    /\ \E r \in Calls : result[r].status = "error" /\ CarriesForwardTag(r)
    /\ \E r \in Calls : result[r].status = "error" /\ CarriesThankYouTag(r)

\* the forward send of call r has failed with the provider error "boom"
ForwardSendFailedBoom(r) ==
    ForwardSendFailed(r) /\ returned[r][1].msg = <<"boom">>

\* C6 as stated: when the forward send fails with "boom", the returned error's
\* message contains "boom" and the tag "forward email send failed", and no
\* thank-you send was issued.
C6_AsStated ==
    \A r \in Calls :
        ForwardSendFailedBoom(r) =>
            /\ result[r].status = "error"
            /\ Contains(ErrorText(result[r]), <<"boom">>)
            /\ Contains(ErrorText(result[r]), <<"forward", "email", "send", "failed">>)
            /\ ThankYouSends(r) = {}

\* C6 (amended): when the forward send fails with "boom", the returned error's
\* message contains "boom" and the text "failed to send forward email", and no
\* thank-you send was issued.
C6_ForwardFailureMessage ==
    \A r \in Calls :
        ForwardSendFailedBoom(r) =>
            /\ result[r].status = "error"
            /\ Contains(ErrorText(result[r]), <<"boom">>)
            /\ Contains(ErrorText(result[r]), <<"failed", "to", "send", "forward", "email">>)
            /\ ThankYouSends(r) = {}

C6_Witness ==
    \E r \in Calls : ForwardSendFailedBoom(r) /\ result[r].status = "error"

-----------------------------------------------------------------------------
(* Properties of construction *)

\* the templates New builds from each configured body
LocalTemplates ==
    [s \in EncodedBodies |-> [forward |-> constructForwardTemplate(s).t,
                              thankYou |-> constructThankYouTemplate(s).t]]

\* the template New builds from the configuration under a name
LocalTemplate(name) ==
    IF name = "ForwardTemplate"
    THEN LocalTemplates[cfg.ForwardTemplateEncoded].forward
    ELSE LocalTemplates[cfg.ThankYouTemplateEncoded].thankYou

\* the i-th template call made initTemplate return an error
ReconcileFailed(i) ==
    /\ tcalls[i].out.kind # "ok"
    /\ ~(tcalls[i].op = "GetEmailTemplate" /\ tcalls[i].out.kind = "NotFoundException")

\* a create or an update of the template succeeded
Reconciled(name) ==
    \E i \in 1..Len(tcalls) :
        /\ tcalls[i].name = name
        /\ tcalls[i].op \in {"CreateEmailTemplate", "UpdateEmailTemplate"}
        /\ tcalls[i].out.kind = "ok"

SendIssued == \E r \in Calls : sends[r] # <<>>

\* the calls of one kind New made for one template
CallsOf(op, name) ==
    { j \in 1..Len(tcalls) : tcalls[j].op = op /\ tcalls[j].name = name }

\* C7: a send has been issued only if New has returned without error, both
\* templates having been created or updated successfully; and when a
\* reconciliation has failed, New has returned an error and a nil orchestrator
\* (and the process does not serve).
C7_NoSendBeforeConstruction ==
    /\ SendIssued =>
           /\ mpc \in {"serving", "crashed"}
           /\ newErr = NoErr
           /\ ~o.isNil
           /\ Reconciled("ForwardTemplate")
           /\ Reconciled("ThankYouTemplate")
    /\ (\E i \in 1..Len(tcalls) : ReconcileFailed(i)) =>
           /\ mpc \in {"returned", "exited"}
           /\ newErr # NoErr
           /\ o = NilOrchestrator

C7_Witness ==
    /\ SendIssued
    /\ CallsOf("CreateEmailTemplate", "ForwardTemplate") # {}
    /\ CallsOf("UpdateEmailTemplate", "ThankYouTemplate") # {}

\* C8: New's template calls are all for the forward template first and then all
\* for the thank-you template; when a call for the forward template has failed
\* (fetch, create or update), New has made no call for the thank-you template
\* and has returned an error and no orchestrator.
C8_ForwardFirstFailFast ==
    /\ \A i, j \in 1..Len(tcalls) :
           (i < j /\ tcalls[i].name = "ThankYouTemplate") => tcalls[j].name = "ThankYouTemplate"
    /\ tcalls # <<>> => tcalls[1].name = "ForwardTemplate"
    /\ (\E i \in 1..Len(tcalls) : tcalls[i].name = "ForwardTemplate" /\ ReconcileFailed(i)) =>
           /\ \A j \in 1..Len(tcalls) : tcalls[j].name # "ThankYouTemplate"
           /\ newErr # NoErr
           /\ o = NilOrchestrator
           /\ mpc \in {"returned", "exited"}

C8_Witness ==
    /\ mpc = "exited"
    /\ Len(tcalls) = 2
    /\ tcalls[2].op = "CreateEmailTemplate"
    /\ tcalls[2].name = "ForwardTemplate"
    /\ ReconcileFailed(2)

\* C9: for every template whose fetch by name succeeded, New goes on to issue
\* exactly one update, carrying that template's name and its local content, and
\* issues no create for it.
C9_UpdateWhenFound ==
    \A i \in 1..Len(tcalls) :
        (tcalls[i].op = "GetEmailTemplate" /\ tcalls[i].out.kind = "ok") =>
            LET n == tcalls[i].name
            IN  /\ CallsOf("CreateEmailTemplate", n) = {}
                /\ IF i = Len(tcalls)
                   THEN mpc = "update" /\ CallsOf("UpdateEmailTemplate", n) = {}
                   ELSE /\ CallsOf("UpdateEmailTemplate", n) = {i + 1}
                        /\ tcalls[i + 1].content = LocalTemplate(n).Content
                        /\ n \in TemplateNames

C9_Witness ==
    \E i \in 1..Len(tcalls) :
        /\ tcalls[i].op = "GetEmailTemplate"
        /\ tcalls[i].out.kind = "ok"
        /\ tcalls[i].name = "ThankYouTemplate"
        /\ CallsOf("UpdateEmailTemplate", "ThankYouTemplate") = {i + 1}
        /\ tcalls[i + 1].content.Html = <<104, 105>>

\* C10: for every template whose fetch by name failed with NotFoundException,
\* New goes on to issue exactly one create, carrying that template's name and
\* its local content, and issues no update for it.
C10_CreateWhenNotFound ==
    \A i \in 1..Len(tcalls) :
        (tcalls[i].op = "GetEmailTemplate" /\ tcalls[i].out.kind = "NotFoundException") =>
            LET n == tcalls[i].name
            IN  /\ CallsOf("UpdateEmailTemplate", n) = {}
                /\ IF i = Len(tcalls)
                   THEN mpc = "create" /\ CallsOf("CreateEmailTemplate", n) = {}
                   ELSE /\ CallsOf("CreateEmailTemplate", n) = {i + 1}
                        /\ tcalls[i + 1].content = LocalTemplate(n).Content
                        /\ n \in TemplateNames

C10_Witness ==
    \E i \in 1..Len(tcalls) :
        /\ tcalls[i].op = "GetEmailTemplate"
        /\ tcalls[i].out.kind = "NotFoundException"
        /\ tcalls[i].name = "ForwardTemplate"
        /\ CallsOf("CreateEmailTemplate", "ForwardTemplate") = {i + 1}
        /\ tcalls[i + 1].content.Html = <<65>>

\* New has returned (to main, which then exits or serves)
NewReturned == mpc \in {"returned", "exited", "serving", "crashed"}

\* the fetches New made that returned a given kind of outcome
FetchesOfKind(kind) ==
    { j \in 1..Len(tcalls) : tcalls[j].op = "GetEmailTemplate" /\ tcalls[j].out.kind = kind }

\* the calls of one kind New made
CallsOfOp(op) == { j \in 1..Len(tcalls) : tcalls[j].op = op }

\* the text initTemplate puts in front of a fetch error
LookupTag == <<"failed", "to", "initialize", "email", "template", "with", "aws", "ses">>

\* C11 as stated: for every template whose fetch failed with an error that is
\* not "not found", New has issued neither a create nor an update for it and
\* has returned an error whose message carries the tag "lookup failed" and
\* contains the provider's message.
C11_AsStated ==
    \A i \in 1..Len(tcalls) :
        (tcalls[i].op = "GetEmailTemplate" /\ tcalls[i].out.kind = "error") =>
            /\ CallsOf("CreateEmailTemplate", tcalls[i].name) = {}
            /\ CallsOf("UpdateEmailTemplate", tcalls[i].name) = {}
            /\ Contains(newErr, <<"lookup", "failed">>)
            /\ Contains(newErr, tcalls[i].out.msg)

\* C11 (amended): for every template whose fetch failed with an error that is
\* not "not found", New has issued neither a create nor an update for it and
\* has returned an error whose message carries the text "failed to initialize
\* email template with aws ses" and contains the provider's message.
C11_LookupFailure ==
    \A i \in 1..Len(tcalls) :
        (tcalls[i].op = "GetEmailTemplate" /\ tcalls[i].out.kind = "error") =>
            /\ i = Len(tcalls)
            /\ CallsOf("CreateEmailTemplate", tcalls[i].name) = {}
            /\ CallsOf("UpdateEmailTemplate", tcalls[i].name) = {}
            /\ mpc \in {"returned", "exited"}
            /\ o = NilOrchestrator
            /\ Contains(newErr, LookupTag)
            /\ Contains(newErr, tcalls[i].out.msg)

C11_Witness ==
    /\ mpc = "exited"
    /\ Len(tcalls) = 3
    /\ tcalls[3].op = "GetEmailTemplate"
    /\ tcalls[3].name = "ThankYouTemplate"
    /\ tcalls[3].out.kind = "error"

\* C12: once New has returned with every create and update having succeeded,
\* the number of creates equals the number of fetches answered "not found" and
\* the number of updates equals the number of fetches that succeeded; a New
\* that returned without error fetched both templates; both fetches "not
\* found" gives 2 creates, 0 updates and an orchestrator, both fetches
\* succeeding gives 2 updates, 0 creates and an orchestrator.
C12_CreateUpdateCounts ==
    (/\ NewReturned
     /\ \A j \in CallsOfOp("CreateEmailTemplate") \cup CallsOfOp("UpdateEmailTemplate") :
            tcalls[j].out.kind = "ok") =>
        /\ Cardinality(CallsOfOp("CreateEmailTemplate"))
               = Cardinality(FetchesOfKind("NotFoundException"))
        /\ Cardinality(CallsOfOp("UpdateEmailTemplate")) = Cardinality(FetchesOfKind("ok"))
        /\ newErr = NoErr => Cardinality(CallsOfOp("GetEmailTemplate")) = 2
        /\ Cardinality(FetchesOfKind("NotFoundException")) = 2 =>
               /\ Cardinality(CallsOfOp("CreateEmailTemplate")) = 2
               /\ CallsOfOp("UpdateEmailTemplate") = {}
               /\ newErr = NoErr
               /\ ~o.isNil
        /\ Cardinality(FetchesOfKind("ok")) = 2 =>
               /\ Cardinality(CallsOfOp("UpdateEmailTemplate")) = 2
               /\ CallsOfOp("CreateEmailTemplate") = {}
               /\ newErr = NoErr
               /\ ~o.isNil

C12_Witness ==
    /\ mpc = "serving"
    /\ Cardinality(FetchesOfKind("NotFoundException")) = 2
    /\ Cardinality(CallsOfOp("CreateEmailTemplate")) = 2

ForwardBodyMalformed == DecodedBodies[cfg.ForwardTemplateEncoded].err # NoErr

ThankYouBodyMalformed == DecodedBodies[cfg.ThankYouTemplateEncoded].err # NoErr

\* C13: when a configured body is not valid base64, New (once it has run) has
\* returned an error tagged with the template that failed to decode and no
\* orchestrator, and no provider call (fetch, create, update, send) has been
\* issued; also when only the thank-you body is malformed.
C13_DecodeFailureBeforeProvider ==
    (mpc # "New" /\ (ForwardBodyMalformed \/ ThankYouBodyMalformed)) =>
        /\ mpc \in {"returned", "exited"}
        /\ o = NilOrchestrator
        /\ tcalls = <<>>
        /\ ~SendIssued
        /\ IF ForwardBodyMalformed
           THEN HasTag(newErr, <<"failed", "to", "decode", "forward", "template", ":">>)
           ELSE HasTag(newErr, <<"failed", "to", "decode", "thank", "you", "template", ":">>)
        /\ Contains(newErr, <<"illegal", "base64", "data">>)

C13_Witness ==
    /\ mpc = "exited"
    /\ ~ForwardBodyMalformed
    /\ ThankYouBodyMalformed
    /\ cfg.ForwardTemplateEncoded # <<>>

-----------------------------------------------------------------------------
(* More properties of SendMail *)

\* C14: every error a SendMail call returned carries the classification
\* Internal; no SendMail outcome carries another error classification.
C14_ErrorsAreInternal ==
    \A r \in Calls :
        /\ result[r].status = "error" => result[r].code = "Internal"
        /\ result[r].code \in {"", "OK", "Internal"}
        /\ result[r].code = "OK" <=> result[r].status = "ok"

C14_Witness ==
    \E r, q \in Calls :
        /\ result[r].status = "error" /\ ForwardSendFailed(r) /\ result[r].code = "Internal"
        /\ result[q].status = "error" /\ ThankYouSendFailed(q) /\ result[q].code = "Internal"
        /\ returned[q][2].msg = <<"boom">>

\* C15: the payload of the forward send of every call is exactly the mapping
\* with the keys message, name, email and subject, holding the submission's
\* message, name and email, and for subject the submission's subject when it
\* is present (even empty) and "Portfolio Contact Form Inquiry" when absent.
C15_ForwardPayload ==
    \A r \in Calls :
        Len(sends[r]) >= 1 =>
            LET d == sends[r][1].TemplateData
            IN  /\ DOMAIN d = {"message", "name", "email", "subject"}
                /\ d.message = req[r].message
                /\ d.name = req[r].name
                /\ d.email = req[r].email
                /\ d.subject = IF req[r].subject = Nil
                               THEN "Portfolio Contact Form Inquiry"
                               ELSE req[r].subject

C15_Witness ==
    \E r, q \in Calls :
        /\ Len(sends[r]) >= 1 /\ req[r].subject = Nil
        /\ sends[r][1].TemplateData.subject = "Portfolio Contact Form Inquiry"
        /\ Len(sends[q]) >= 1 /\ req[q].subject = ""
        /\ sends[q][1].TemplateData.subject = ""

\* C16: every send of every call has the configured from-address as sender;
\* the first send of a call names the forward template and the second the
\* thank-you template, each the name under which New created or updated that
\* template (the first and the last template call of New).
C16_SenderAndTemplates ==
    \A r \in Calls :
        /\ \A k \in 1..Len(sends[r]) :
               /\ sends[r][k].FromEmailAddress = cfg.FromEmail
               /\ Reconciled(sends[r][k].TemplateName)
        /\ Len(sends[r]) >= 1 =>
               /\ sends[r][1].TemplateName = LocalTemplate("ForwardTemplate").Name
               /\ sends[r][1].TemplateName = tcalls[1].name
        /\ Len(sends[r]) >= 2 =>
               /\ sends[r][2].TemplateName = LocalTemplate("ThankYouTemplate").Name
               /\ sends[r][2].TemplateName = tcalls[Len(tcalls)].name

C16_Witness ==
    \E r \in Calls :
        /\ Len(sends[r]) = 2
        /\ sends[r][1].TemplateName = "ForwardTemplate"
        /\ sends[r][2].TemplateName = "ThankYouTemplate"
        /\ sends[r][2].FromEmailAddress = "noreply@example.com"

\* a send that returned an error is the last send of its SendMail call
FailedSendsAreLast ==
    \A r \in Calls : \A k \in 1..Len(returned[r]) :
        returned[r][k].kind # "ok" => k = Len(sends[r])

\* at most one fetch and one create-or-update per template, at most two sends
\* per SendMail call
AtMostOnce ==
    /\ \A name \in TemplateNames :
           /\ Cardinality(CallsOf("GetEmailTemplate", name)) <= 1
           /\ Cardinality(CallsOf("CreateEmailTemplate", name)
                          \cup CallsOf("UpdateEmailTemplate", name)) <= 1
    /\ Len(tcalls) <= 4
    /\ \A r \in Calls : Len(sends[r]) <= 2 /\ Len(returned[r]) <= Len(sends[r])

\* C17 as stated: New issues at most one fetch and one create-or-update per
\* template (at most 4 calls), a SendMail call at most 2 sends, and a provider
\* call that returned any error is the last provider call of its operation.
C17_AsStated ==
    /\ AtMostOnce
    /\ FailedSendsAreLast
    /\ \A i \in 1..Len(tcalls) : tcalls[i].out.kind # "ok" => i = Len(tcalls)

\* C17 (amended): New issues at most one fetch and one create-or-update per
\* template (at most 4 calls), a SendMail call at most 2 sends, and a provider
\* call that returned an error, other than a fetch answered "not found", is
\* the last provider call of its operation.
C17_NoRetry ==
    /\ AtMostOnce
    /\ FailedSendsAreLast
    /\ \A i \in 1..Len(tcalls) : ReconcileFailed(i) => i = Len(tcalls)

C17_Witness ==
    /\ Len(tcalls) = 3
    /\ tcalls[1].out.kind = "NotFoundException"
    /\ tcalls[2].op = "CreateEmailTemplate"
    /\ tcalls[2].out.kind = "ok"
    /\ tcalls[3].out.kind = "error"
    /\ mpc = "exited"

\* C18: once New has returned, no step appends a fetch, create or update call
\* and no step changes the provider's templates, whatever SendMail calls are
\* handled and however they end.
C18_NoTemplateCallsAfterConstruction ==
    [][NewReturned => (tcalls' = tcalls /\ store' = store)]_vars

C18_Witness ==
    /\ mpc = "serving"
    /\ Len(tcalls) = 4
    /\ \E r, q \in Calls :
           /\ rpc[r] = "done" /\ result[r].status = "ok"
           /\ rpc[q] = "done" /\ result[q].status = "error"

\* C19: every fetch, create and update carries the context passed to New, and
\* every send of call r carries the context passed to that SendMail call.
C19_ContextPropagated ==
    /\ \A i \in 1..Len(tcalls) : tcalls[i].ctx = StartupCtx
    /\ \A r \in Calls : \A k \in 1..Len(sends[r]) : sends[r][k].ctx = RequestCtx(r)

C19_Witness ==
    /\ Len(tcalls) = 4
    /\ tcalls[2].op = "CreateEmailTemplate"
    /\ tcalls[4].op = "UpdateEmailTemplate"
    /\ Len(sends[1]) = 2
    /\ Len(sends[2]) = 2
    /\ sends[2][2].ctx = RequestCtx(2)

-----------------------------------------------------------------------------
(* Properties of repeated construction *)

\* C20: against a provider that stores what it is given, when New is called
\* again with the same Config after it returned an orchestrator, the
\* provider's templates stay what they were when the previous call returned
\* (the local content under both names), no create is issued, and once the
\* call has returned it has succeeded with exactly one update per template.
C20_ReconcileIdempotent ==
    run >= 2 =>
        /\ store = store1
        /\ \A name \in TemplateNames : store[name] = LocalTemplate(name).Content
        /\ CallsOfOp("CreateEmailTemplate") = {}
        /\ \A i \in 1..Len(tcalls) : tcalls[i].out.kind = "ok"
        /\ mpc = "returned" =>
               /\ newErr = NoErr
               /\ ~o.isNil
               /\ Len(tcalls) = 4
               /\ \A name \in TemplateNames :
                      Cardinality(CallsOf("UpdateEmailTemplate", name)) = 1

C20_Witness ==
    /\ run = 2
    /\ mpc = "returned"
    /\ newErr = NoErr
    /\ CallsOfOp("UpdateEmailTemplate") = {2, 4}
    /\ store = store1

-----------------------------------------------------------------------------
(* Properties of the process: startup and request handling *)

\* a SendMail call has been dispatched to the orchestrator
Dispatched(r) == rpc[r] # "idle"

\* C21: when New has returned an error, the process has not registered the
\* service and does not serve (it is about to exit or has exited), and no
\* SendMail call has been dispatched: no request, no send, no result.
C21_FailedConstructionNeverServes ==
    newErr # NoErr =>
        /\ mpc \in {"returned", "exited"}
        /\ o = NilOrchestrator
        /\ \A r \in Calls :
               /\ ~Dispatched(r)
               /\ req[r] = NoRequest
               /\ sends[r] = <<>>
               /\ result[r] = NoResult

C21_Witness ==
    /\ mpc = "exited"
    /\ newErr # NoErr
    /\ Len(tcalls) = 2
    /\ tcalls[2].op = "UpdateEmailTemplate"
    /\ \A r \in Calls : ~Dispatched(r)

\* the call has returned an error to its caller
Failed(r) == rpc[r] = "done" /\ result[r].status = "error"

\* both sends of the call have been issued and have succeeded
BothSendsSucceeded(r) ==
    /\ Len(returned[r]) = 2
    /\ returned[r][1].kind = "ok"
    /\ returned[r][2].kind = "ok"

\* C22: a call whose send failed has returned an error, and failed calls do
\* not stop the service (the process stops serving only by a panic); a call
\* whose two sends succeeded after any number of failed calls has returned
\* the empty success and has issued exactly the forward send and the
\* thank-you send that its own request and the configuration determine.
C22_FailuresDoNotPoison ==
    /\ \A r \in Calls :
           (rpc[r] = "done" /\ (ForwardSendFailed(r) \/ ThankYouSendFailed(r))) => Failed(r)
    /\ (\E r \in Calls : Dispatched(r)) =>
           \/ mpc = "serving"
           \/ mpc = "crashed" /\ \E r \in Calls : result[r] = Panicked
    /\ \A r \in Calls :
           BothSendsSucceeded(r) =>
               /\ result[r] = EmptySuccess
               /\ sends[r] = << [TemplateName |-> "ForwardTemplate",
                                 TemplateData |->
                                     constructForwardTemplateData(req[r].message, req[r].name,
                                                                  req[r].email, req[r].subject),
                                 ToAddresses |-> <<cfg.ForwardEmail>>,
                                 FromEmailAddress |-> cfg.FromEmail,
                                 ctx |-> RequestCtx(r)],
                                [TemplateName |-> "ThankYouTemplate",
                                 TemplateData |->
                                     constructThankYouTemplateData(ThankYouDataArgument(req[r])),
                                 ToAddresses |-> <<req[r].email>>,
                                 FromEmailAddress |-> cfg.FromEmail,
                                 ctx |-> RequestCtx(r)] >>

C22_Witness ==
    /\ mpc = "serving"
    /\ Failed(1)
    /\ req[1].name = "John Doe"
    /\ BothSendsSucceeded(2)
    /\ req[2].name = "Ann"
    /\ result[2] = EmptySuccess

\* C23: every orchestrator that serves traffic has a logger, and every call
\* whose forward send succeeded has recorded the forward-sent event and has
\* gone on to issue the thank-you send.
C23_LoggerPresent ==
    mpc \in {"serving", "crashed"} =>
        /\ o.logger # Nil
        /\ \A r \in Calls :
               ForwardSendSucceeded(r) =>
                   /\ logged[r] # <<>>
                   /\ Len(sends[r]) = 2
                   /\ result[r] # Panicked

\* what a finished call returned, as the outcomes of its own sends determine it
OwnResult(r) ==
    IF returned[r][1].kind # "ok" THEN ForwardSendError(returned[r][1])
    ELSE IF Len(returned[r]) = 1 THEN Panicked
    ELSE IF returned[r][2].kind # "ok" THEN ThankYouSendError(returned[r][2])
    ELSE EmptySuccess

\* C24: whatever the interleaving of the calls, the forward payload of a call
\* is built from its own request, its thank-you send goes to its own
\* request's email with a payload built from its own request, the thank-you
\* send is issued only after the call's forward send has returned, and the
\* result of a finished call is determined by the outcomes of its own sends.
C24_CallsDoNotInterfere ==
    \A r \in Calls :
        /\ Len(sends[r]) <= 2
        /\ Len(sends[r]) >= 1 =>
               /\ sends[r][1].TemplateName = "ForwardTemplate"
               /\ sends[r][1].TemplateData =
                      constructForwardTemplateData(req[r].message, req[r].name,
                                                   req[r].email, req[r].subject)
        /\ Len(sends[r]) = 2 =>
               /\ sends[r][2].TemplateName = "ThankYouTemplate"
               /\ sends[r][2].ToAddresses = <<req[r].email>>
               /\ sends[r][2].TemplateData =
                      constructThankYouTemplateData(ThankYouDataArgument(req[r]))
               /\ Len(returned[r]) >= 1
        /\ rpc[r] = "done" => result[r] = OwnResult(r)
        /\ rpc[r] # "done" => result[r] = NoResult

C24_Witness ==
    /\ rpc[1] = "forward"
    /\ rpc[2] = "thankyou"
    /\ req[1].email = "john@example.com"
    /\ req[2].email = "ann@example.com"
    /\ sends[2][2].ToAddresses = <<"ann@example.com">>

\* C25: at no moment are two sends of one call in flight; the thank-you send
\* of a call has been issued only if its forward send has returned, and
\* returned success.
C25_SendsSequential ==
    \A r \in Calls :
        /\ inflight[r] \in {0, 1}
        /\ inflight[r] = Len(sends[r]) - Len(returned[r])
        /\ Len(sends[r]) >= 2 =>
               /\ Len(returned[r]) >= 1
               /\ returned[r][1].kind = "ok"

C25_Witness ==
    \E r \in Calls :
        /\ Len(sends[r]) = 2
        /\ Len(returned[r]) = 1
        /\ inflight[r] = 1
        /\ rpc[r] = "thankyou"

\* C26: for every call, the event "Forward email sent" with the forward
\* address is recorded exactly once if the forward send has succeeded and not
\* at all otherwise; it is recorded before the thank-you send is issued and
\* stays recorded when the thank-you send fails.
C26_EventIffForwardSucceeded ==
    \A r \in Calls :
        /\ IF ForwardSendSucceeded(r)
           THEN logged[r] = << [msg |-> "Forward email sent", to |-> cfg.ForwardEmail] >>
           ELSE logged[r] = <<>>
        /\ Len(sends[r]) = 2 => Len(logged[r]) = 1
        /\ ThankYouSendFailed(r) => Len(logged[r]) = 1

-----------------------------------------------------------------------------
(* More properties of construction *)

\* C27: under a provider that stores what it is given, whenever New has
\* returned an orchestrator the provider holds a template under both names,
\* whose content is the fixed subject of that template and the body decoded
\* from the configuration, whether the name was absent or held other content
\* before.
C27_RemoteMatchesLocal ==
    (mpc = "returned" /\ newErr = NoErr) =>
        /\ \A name \in TemplateNames : store[name] # Absent
        /\ store["ForwardTemplate"] =
               [Subject |-> "Portfolio Contact Form Submission",
                Html |-> DecodedBodies[cfg.ForwardTemplateEncoded].v]
        /\ store["ThankYouTemplate"] =
               [Subject |-> "Thank you for your interest",
                Html |-> DecodedBodies[cfg.ThankYouTemplateEncoded].v]

C27_Witness ==
    /\ run = 1
    /\ mpc = "returned"
    /\ newErr = NoErr
    /\ tcalls[2].op = "UpdateEmailTemplate"
    /\ tcalls[4].op = "CreateEmailTemplate"
    /\ store["ForwardTemplate"].Html = <<104, 105>>

\* the texts initTemplate puts in front of a create and an update error
CreateTag == <<"failed", "to", "create", "email", "template", "with", "aws", "ses">>

UpdateTag == <<"failed", "to", "update", "email", "template", "with", "aws", "ses">>

\* a create or an update of New returned an error
WriteFailed(i) ==
    /\ tcalls[i].op \in {"CreateEmailTemplate", "UpdateEmailTemplate"}
    /\ tcalls[i].out.kind # "ok"

\* C28 as stated: a failing update yields an error tagged "update failed" and
\* a failing create one tagged "create failed", each containing the
\* provider's message; after a failing create no update and after a failing
\* update no create is attempted; New has returned that error.
C28_AsStated ==
    \A i \in 1..Len(tcalls) :
        WriteFailed(i) =>
            /\ i = Len(tcalls)
            /\ o = NilOrchestrator
            /\ Contains(newErr, tcalls[i].out.msg)
            /\ IF tcalls[i].op = "UpdateEmailTemplate"
               THEN /\ Contains(newErr, <<"update", "failed">>)
                    /\ ~Contains(newErr, <<"create", "failed">>)
                    /\ CallsOf("CreateEmailTemplate", tcalls[i].name) = {}
               ELSE /\ Contains(newErr, <<"create", "failed">>)
                    /\ ~Contains(newErr, <<"update", "failed">>)
                    /\ CallsOf("UpdateEmailTemplate", tcalls[i].name) = {}

\* C28 (amended): a failing update yields an error carrying the text "failed
\* to update email template with aws ses" and a failing create one carrying
\* "failed to create email template with aws ses", each containing the
\* provider's message and neither of the other two steps' texts; after a
\* failing create no update and after a failing update no create is
\* attempted; New has returned that error and no orchestrator.
C28_WriteFailureTagged ==
    \A i \in 1..Len(tcalls) :
        WriteFailed(i) =>
            /\ i = Len(tcalls)
            /\ mpc \in {"returned", "exited"}
            /\ o = NilOrchestrator
            /\ Contains(newErr, tcalls[i].out.msg)
            /\ ~Contains(newErr, LookupTag)
            /\ IF tcalls[i].op = "UpdateEmailTemplate"
               THEN /\ Contains(newErr, UpdateTag)
                    /\ ~Contains(newErr, CreateTag)
                    /\ CallsOf("CreateEmailTemplate", tcalls[i].name) = {}
               ELSE /\ Contains(newErr, CreateTag)
                    /\ ~Contains(newErr, UpdateTag)
                    /\ CallsOf("UpdateEmailTemplate", tcalls[i].name) = {}

C28_Witness ==
    /\ mpc = "exited"
    /\ Len(tcalls) = 4
    /\ tcalls[2].op = "UpdateEmailTemplate"
    /\ tcalls[4].op = "CreateEmailTemplate"
    /\ tcalls[4].out.kind = "error"
    /\ Contains(newErr, CreateTag)

\* C29: every dispatched call, whatever its fields (all empty included), has
\* issued the forward send with the request's fields unchanged (a present
\* empty subject stays empty), and every call whose forward send succeeded
\* has issued the thank-you send, addressed to the request's email unchanged
\* (the empty string included).
C29_NoValidation ==
    \A r \in Calls :
        /\ Dispatched(r) =>
               /\ Len(sends[r]) >= 1
               /\ sends[r][1].TemplateData.message = req[r].message
               /\ sends[r][1].TemplateData.name = req[r].name
               /\ sends[r][1].TemplateData.email = req[r].email
               /\ req[r].subject # Nil =>
                      sends[r][1].TemplateData.subject = req[r].subject
        /\ ForwardSendSucceeded(r) =>
               /\ Len(sends[r]) = 2
               /\ sends[r][2].ToAddresses = <<req[r].email>>

\* C30: an empty encoded body never yields the decode error of its template;
\* when a body is empty and no body is malformed, New has gone on to the fetch
\* of the forward template, every create and update for a template with an
\* empty body carries the empty body, and an error New returned is the one of
\* a failed fetch, create or update, the last provider call.
C30_EmptyBodyDecodes ==
    /\ cfg.ForwardTemplateEncoded = <<>> =>
           ~Contains(newErr, <<"failed", "to", "decode", "forward", "template">>)
    /\ cfg.ThankYouTemplateEncoded = <<>> =>
           ~Contains(newErr, <<"failed", "to", "decode", "thank", "you", "template">>)
    /\ (/\ mpc # "New"
        /\ cfg.ForwardTemplateEncoded = <<>> \/ cfg.ThankYouTemplateEncoded = <<>>
        /\ ~ForwardBodyMalformed
        /\ ~ThankYouBodyMalformed) =>
           /\ \/ mpc = "get" /\ tix = 1 /\ tcalls = <<>> /\ newErr = NoErr
              \/ Len(tcalls) >= 1 /\ tcalls[1].op = "GetEmailTemplate"
           /\ \A i \in 1..Len(tcalls) :
                  (/\ tcalls[i].op # "GetEmailTemplate"
                   /\ IF tcalls[i].name = "ForwardTemplate"
                      THEN cfg.ForwardTemplateEncoded = <<>>
                      ELSE cfg.ThankYouTemplateEncoded = <<>>) =>
                      tcalls[i].content.Html = <<>>
           /\ newErr # NoErr =>
                  /\ ReconcileFailed(Len(tcalls))
                  /\ Contains(newErr, tcalls[Len(tcalls)].out.msg)

C30_Witness ==
    /\ cfg.ForwardTemplateEncoded = <<>>
    /\ cfg.ThankYouTemplateEncoded = <<>>
    /\ mpc = "exited"
    /\ Len(tcalls) = 4
    /\ tcalls[2].op = "CreateEmailTemplate"
    /\ tcalls[2].content.Html = <<>>
    /\ tcalls[2].out.kind = "ok"
    /\ tcalls[4].op = "UpdateEmailTemplate"
    /\ tcalls[4].out.kind = "error"

-----------------------------------------------------------------------------
(* Frame properties *)

\* the orchestrator New builds from the Config
ConstructedOrchestrator ==
    [isNil |-> FALSE,
     forwardEmail |-> cfg.ForwardEmail,
     fromEmail |-> cfg.FromEmail,
     forwardTemplate |->
         [Name |-> "ForwardTemplate",
          Content |-> [Subject |-> "Portfolio Contact Form Submission",
                       Html |-> DecodedBodies[cfg.ForwardTemplateEncoded].v]],
     thankYouTemplate |->
         [Name |-> "ThankYouTemplate",
          Content |-> [Subject |-> "Thank you for your interest",
                       Html |-> DecodedBodies[cfg.ThankYouTemplateEncoded].v]],
     logger |-> cfg.Logger]

\* C31: once New has returned, no step changes the orchestrator (its
\* from-address, forward-address and the name, subject and body of both
\* templates), and an orchestrator New returned without error holds the values
\* it was constructed with, whatever SendMail calls succeed or fail.
C31_OrchestratorImmutable ==
    [][NewReturned =>
           /\ o' = o
           /\ cfg' = cfg
           /\ newErr = NoErr => o = ConstructedOrchestrator]_vars

C31_Witness ==
    /\ mpc = "serving"
    /\ o = ConstructedOrchestrator
    /\ o.forwardTemplate.Content.Html = <<104, 105>>
    /\ \E r, q \in Calls :
           /\ rpc[r] = "done" /\ ThankYouSendFailed(r)
           /\ rpc[q] = "done" /\ result[q] = EmptySuccess

\* C32: when the reconciliation of the thank-you template has failed after
\* the forward template was created or updated, the failed call is the last
\* provider call New made, New has returned an error and no orchestrator, and
\* the provider still holds the forward template's local content.
C32_NoRollback ==
    \A i \in 1..Len(tcalls) :
        (ReconcileFailed(i) /\ tcalls[i].name = "ThankYouTemplate") =>
            /\ i = Len(tcalls)
            /\ Reconciled("ForwardTemplate")
            /\ store["ForwardTemplate"] = LocalTemplate("ForwardTemplate").Content
            /\ newErr # NoErr
            /\ o = NilOrchestrator
            /\ mpc \in {"returned", "exited"}

C32_Witness ==
    /\ mpc = "exited"
    /\ Len(tcalls) = 4
    /\ tcalls[2].op = "CreateEmailTemplate"
    /\ tcalls[2].out.kind = "ok"
    /\ tcalls[4].op = "UpdateEmailTemplate"
    /\ tcalls[4].out.kind = "error"
    /\ store["ForwardTemplate"].Subject = "Portfolio Contact Form Submission"
    /\ store["ThankYouTemplate"] = StaleContent

\* C34: the names of the two templates of an orchestrator are non-empty and
\* distinct; a step taken while New reconciles one template leaves what the
\* provider holds under the other name unchanged; and every template name a
\* send carries is one for which a create or an update succeeded.
C34_DistinctNames ==
    [][/\ ~o.isNil =>
              /\ o.forwardTemplate.Name # ""
              /\ o.thankYouTemplate.Name # ""
              /\ o.forwardTemplate.Name # o.thankYouTemplate.Name
       /\ tix = 1 => store'["ThankYouTemplate"] = store["ThankYouTemplate"]
       /\ tix = 2 => store'["ForwardTemplate"] = store["ForwardTemplate"]
       /\ \A r \in Calls : \A k \in 1..Len(sends[r]) :
              Reconciled(sends[r][k].TemplateName)]_vars

C34_Witness ==
    /\ mpc = "serving"
    /\ store["ForwardTemplate"].Subject = "Portfolio Contact Form Submission"
    /\ store["ThankYouTemplate"].Subject = "Thank you for your interest"
    /\ tcalls[2].op = "UpdateEmailTemplate"
    /\ tcalls[4].op = "UpdateEmailTemplate"
    /\ \E r \in Calls : Len(sends[r]) = 2

-----------------------------------------------------------------------------
(* The RPC server *)

\* C36: for every request dispatched to the server the orchestrator's
\* SendMail has run exactly once, with the request's context and the request
\* as received (one forward send, built from that request and carrying that
\* context); the caller gets exactly the response or error the orchestrator's
\* SendMail produced; and the call has issued no provider call besides the
\* orchestrator's two sends.
C36_ServerDelegates ==
    \A r \in Calls :
        /\ Dispatched(r) =>
               /\ Cardinality(ForwardSends(r)) = 1
               /\ sends[r][1].ctx = RequestCtx(r)
               /\ sends[r][1].TemplateData =
                      constructForwardTemplateData(req[r].message, req[r].name,
                                                   req[r].email, req[r].subject)
               /\ Len(sends[r]) = Len(returned[r]) + inflight[r]
               /\ Len(sends[r]) <= 2
        /\ ~Dispatched(r) => sends[r] = <<>> /\ result[r] = NoResult
        /\ rpc[r] = "done" =>
               result[r] =
                   IF returned[r][1].kind # "ok" THEN ForwardSendError(returned[r][1])
                   ELSE IF Len(returned[r]) = 1 THEN Panicked
                   ELSE IF returned[r][2].kind # "ok" THEN ThankYouSendError(returned[r][2])
                   ELSE EmptySuccess

C36_Witness ==
    /\ rpc[1] = "done"
    /\ result[1] = ThankYouSendError([kind |-> "error", msg |-> <<"boom2">>])
    /\ req[1].name = "Ann"
    /\ rpc[2] = "done"
    /\ result[2] = EmptySuccess
    /\ req[2].name = ""

-----------------------------------------------------------------------------
(* Termination *)

\* every provider call returns, and the process takes its own steps: New
\* runs on, main acts on what New returned; nothing obliges a caller to send
\* a request
Fairness ==
    /\ WF_vars(NewConstruct)
    /\ WF_vars(\E out \in GetOutcomes : GetEmailTemplate(out))
    /\ WF_vars(\E out \in CallOutcomes : CreateEmailTemplate(out))
    /\ WF_vars(\E out \in CallOutcomes : UpdateEmailTemplate(out))
    /\ WF_vars(MainFatal)
    /\ WF_vars(MainServe)
    /\ \A r \in Calls :
           /\ WF_vars(\E out \in CallOutcomes : ForwardSendReturns(r, out))
           /\ WF_vars(\E out \in CallOutcomes : ThankYouSendReturns(r, out))

SpecLive == Init /\ [][Next]_vars /\ Fairness

\* C35: when every provider call returns, New, once called, returns, and
\* every dispatched SendMail call ends by returning the empty response or an
\* error to its caller.
C35_CallsReturn ==
    /\ (mpc = "New") ~> NewReturned
    /\ \A r \in Calls :
           Dispatched(r) ~> (rpc[r] = "done" /\ result[r].status \in {"ok", "error"})

-----------------------------------------------------------------------------
(* Two instances starting at once *)

\* C33: when two instances with the same Config (both bodies decodable) have
\* run New against one provider that stores its templates and rejects the
\* creation of a name it holds, both have returned an orchestrator and the
\* provider holds the local content under both names.
C33_ConcurrentStartupSafe ==
    (/\ mpc \in {"returned", "exited"}
     /\ peer.mpc = "returned"
     /\ ~ForwardBodyMalformed
     /\ ~ThankYouBodyMalformed) =>
        /\ newErr = NoErr
        /\ ~o.isNil
        /\ peer.newErr = NoErr
        /\ \A name \in TemplateNames : store[name] = LocalTemplate(name).Content

====
